---------------------------- MODULE Spec2Model ----------------------------
(***************************************************************************)
(* jiralerts: Alertmanager webhook -> JIRA issue reconciliation.            *)
(* Model of jiralerts/issues.py (class Manager and its helpers).            *)
(*                                                                          *)
(* Strings the code takes apart (label values, descriptions) are sequences  *)
(* of tokens; the empty string is <<>>.  JIRA itself is the variable        *)
(* `tickets`; every remote call is one atomic step of a request.            *)
(***************************************************************************)
EXTENDS Integers, Sequences, FiniteSets, TLC

(* ------------------------------ bounds --------------------------------- *)
\* number of requests the transport layer delivers in one behaviour
MaxRequests == 2
\* number of tickets JIRA may hold
MaxTickets == 3
\* number of description updates applied in the description specification
MaxUpdates == 3
\* number of events recorded in the history specification
MaxRecords == 4
\* length of the value of the `tags` label in the tags specification
MaxTagLen == 4

(* ------------------------- program constants --------------------------- *)
HistorySize == 20
DESCRIPTION_BOUNDARY == "_-- Alertmanager -- [only edit above]_"
tags_whitelist == {"severity", "dc", "env", "perimeter", "team", "jiralert"}

\* Python's None where a string is expected (project / issue_type of an Event)
None == <<"None">>

(* --------------------------- string helpers ---------------------------- *)
Range(s) == {s[i] : i \in 1..Len(s)}

Whitespace == {" ", "\n"}

\* str.lstrip() / str.rstrip() / str.strip()
RECURSIVE LStrip(_)
LStrip(s) == IF s # <<>> /\ Head(s) \in Whitespace THEN LStrip(Tail(s)) ELSE s

RECURSIVE RStrip(_)
RStrip(s) ==
    IF s # <<>> /\ s[Len(s)] \in Whitespace
    THEN RStrip(SubSeq(s, 1, Len(s) - 1)) ELSE s

Strip(s) == RStrip(LStrip(s))

\* positions of sep in s
Occurrences(s, sep) == {i \in 1..Len(s) : s[i] = sep}

Max(S) == CHOOSE x \in S : \A y \in S : y <= x

\* str.split(sep): the list of segments between the separators
RECURSIVE Split(_, _)
Split(s, sep) ==
    IF Occurrences(s, sep) = {} THEN <<s>>
    ELSE LET i == CHOOSE j \in Occurrences(s, sep) :
                      \A k \in Occurrences(s, sep) : j <= k
         IN  <<SubSeq(s, 1, i - 1)>> \o Split(SubSeq(s, i + 1, Len(s)), sep)

\* str.rsplit(sep, 1)[0]: what precedes the LAST separator, or all of s
RSplitHead(s, sep) ==
    IF Occurrences(s, sep) = {} THEN s
    ELSE SubSeq(s, 1, Max(Occurrences(s, sep)) - 1)

\* [f(x) for x in s if p(x)] helpers
RECURSIVE FlattenSeq(_)
FlattenSeq(ss) == IF ss = <<>> THEN <<>> ELSE Head(ss) \o FlattenSeq(Tail(ss))

(* --------------------------- pure functions ---------------------------- *)
GroupKeys == {"G1", "G2"}

\* sha1(gk).hexdigest()[0:10]; a fixed table on the group keys of the model
\* (the two digests differ, as they do for almost every pair of keys)
prepare_group_label_key(gk) ==
    CASE gk = "G1" -> "5b1f0c2d9e"
      [] gk = "G2" -> "c03a77e41a"

\* common_labels.items(): the keys in a fixed iteration order
KeyOrder == <<"project", "issue_type", "severity", "tags", "jiralert">>

\* the tags one (k, v) item contributes
TagsOfItem(k, v) ==
    (IF k \in tags_whitelist THEN <<(<<k, ":">> \o v)>> ELSE <<>>)
    \o
    (IF k = "tags"
     THEN LET segs == Split(v, ",")
              kept == SelectSeq(segs, LAMBDA tag : tag # <<>>)
          IN  [i \in 1..Len(kept) |-> Strip(kept[i])]
     ELSE <<>>)

prepare_tags(common_labels) ==
    LET present == SelectSeq(KeyOrder, LAMBDA k : k \in DOMAIN common_labels)
    IN  <<(<<"alert">>)>>
        \o FlattenSeq([i \in 1..Len(present) |->
                          TagsOfItem(present[i], common_labels[present[i]])])

\* "jiralert:%s" % prepare_group_label_key(groupKey)
GroupLabel(gk) == <<"jiralert", ":", prepare_group_label_key(gk)>>

\* variant of Tags: the group label is not appended
Tags_NoGroupLabel(data) == prepare_tags(data.commonLabels)

\* prepare_tags(...) + the group label, as do_file_issue_sync builds `tags`
Tags(data) == Append(prepare_tags(data.commonLabels), GroupLabel(data.groupKey))

\* the templates render the payload's text verbatim into the ticket text
RenderDescription(data) == <<"h2. Common information", data.groupKey>> \o data.annotation
RenderSummary(data) == <<"alertname", data.groupKey>>

\* the description create_issue sends: "%s\n\n%s" % (BOUNDARY, description)
CreateDescription(description) ==
    <<DESCRIPTION_BOUNDARY, "\n", "\n">> \o description

\* the description update_issue sends:
\*   custom_desc = old.rsplit(BOUNDARY, 1)[0]
\*   "%s\n\n%s\n%s" % (custom_desc.strip(), BOUNDARY, description)
UpdateDescription(old, description) ==
    LET custom_desc == RSplitHead(old, DESCRIPTION_BOUNDARY)
    IN  Strip(custom_desc) \o <<"\n", "\n", DESCRIPTION_BOUNDARY, "\n">> \o description

\* variant of MergeLabels: the labels are replaced by the tags
MergeLabels_Replace(labels, tags) == Range(tags)

\* the labels update_issue sends: list(set(issue.fields.labels + tags))
MergeLabels(labels, tags) == labels \cup Range(tags)

(* ------------------------------ inputs --------------------------------- *)
Versions == {"2", "3", "4"}
Statuses == {"firing", "resolved"}

\* commonLabels that route to FOO/Alert, with and without a severity
RoutedLabels ==
    {[k \in {"project", "issue_type"} |->
         IF k = "project" THEN <<"FOO">> ELSE <<"Alert">>],
     [k \in {"project", "issue_type", "severity"} |->
         CASE k = "project" -> <<"FOO">>
           [] k = "issue_type" -> <<"Alert">>
           [] k = "severity" -> <<"crit">>]}

\* commonLabels with a routing label absent or empty
UnroutedLabels ==
    {[k \in {"issue_type"} |-> <<"Alert">>],
     [k \in {"project"} |-> <<"FOO">>],
     [k \in {"project", "issue_type"} |->
         IF k = "project" THEN <<>> ELSE <<"Alert">>]}

\* commonLabels of a G1 alert that carry a label named jiralert whose value is
\* the digest of G2 (any label of the alert reaches commonLabels)
ForeignLabels ==
    {[k \in {"project", "issue_type", "jiralert"} |->
         CASE k = "project" -> <<"FOO">>
           [] k = "issue_type" -> <<"Alert">>
           [] k = "jiralert" -> <<prepare_group_label_key("G2")>>]}

\* commonLabels that route to another project
MovedLabels ==
    {[k \in {"project", "issue_type"} |->
         IF k = "project" THEN <<"BAR">> ELSE <<"Alert">>]}

Annotations == {<<"summary text">>}

\* the payloads the transport layer delivers.  Group G1 has a ticket when
\* the run starts and G2 has none; the other versions and the unrouted
\* labels come once each.
Payloads ==
    [version : {"4"}, status : {"firing"}, groupKey : {"G1"},
     commonLabels : RoutedLabels, annotation : Annotations]
    \cup
    [version : {"4"}, status : Statuses, groupKey : GroupKeys,
     commonLabels : {cl \in RoutedLabels : "severity" \notin DOMAIN cl},
     annotation : Annotations]
    \cup
    [version : Versions \ {"4"}, status : {"firing"}, groupKey : {"G1"},
     commonLabels : {cl \in RoutedLabels : "severity" \notin DOMAIN cl},
     annotation : Annotations]
    \cup
    [version : {"4"}, status : {"firing"}, groupKey : {"G2"},
     commonLabels : UnroutedLabels \cup MovedLabels, annotation : Annotations]
    \cup
    [version : {"4"}, status : {"firing"}, groupKey : {"G1"},
     commonLabels : ForeignLabels, annotation : Annotations]

\* the <project>/<issue_type> of the qualified route
PathProjects == {<<"FOO">>}
PathIssueTypes == {<<"Alert">>}

(* ------------------------------- JIRA ---------------------------------- *)
\* configuration of the Manager
resolve_transitions == <<"resolve issue", "close issue">>
resolved_status == {"resolved", "closed", "done", "complete"}

\* str.lower() on the transition names of the model
Lower(name) ==
    CASE name = "Resolve Issue" -> "resolve issue"
      [] name = "Close Issue"   -> "close issue"
      [] OTHER                  -> name

\* jira.transitions(issue): the workflow offers these on an open ticket
JiraTransitions(t) ==
    IF t.status = "open"
    THEN <<[id |-> "11", name |-> "start progress", to |-> "in progress"],
           [id |-> "21", name |-> "Resolve Issue", to |-> "resolved"],
           [id |-> "31", name |-> "Close Issue", to |-> "closed"]>>
    ELSE IF t.status = "in progress"
    THEN <<[id |-> "41", name |-> "Stop Progress", to |-> "open"]>>
    ELSE <<>>

\* issue.permalink()
Permalink(key) == <<"browse", key>>

\* a ticket an operator filed and labelled by hand before the run
CustomLabel == <<"custom">>
PreexistingTicket ==
    [project |-> <<"FOO">>, issuetype |-> <<"Alert">>, status |-> "open",
     labels |-> {<<"alert">>, GroupLabel("G1"), CustomLabel},
     summary |-> <<"old summary">>,
     description |-> <<"operator notes", "\n", DESCRIPTION_BOUNDARY, "\n", "old text">>,
     creator |-> "operator", touched |-> {}]

\* a second ticket of G1, as an earlier race of two requests leaves it; an
\* operator has started work on it, and in that status the workflow offers no
\* resolving transition
DuplicateTicket ==
    [project |-> <<"FOO">>, issuetype |-> <<"Alert">>, status |-> "in progress",
     labels |-> {<<"alert">>, GroupLabel("G1")},
     summary |-> <<"alertname", "G1">>,
     description |-> <<DESCRIPTION_BOUNDARY, "\n", "\n", "h2. Common information", "G1">>,
     creator |-> "earlier", touched |-> {}]

\* variant of Matches: the status filter is inverted
Matches_TerminalOnly(t, project, issue_type, gk) ==
    /\ t.project = project
    /\ t.issuetype = issue_type
    /\ <<"alert">> \in t.labels
    /\ t.status \in resolved_status
    /\ GroupLabel(gk) \in t.labels

\* the JQL of SEARCH_QUERY, evaluated by JIRA on ticket t
Matches(t, project, issue_type, gk) ==
    /\ t.project = project
    /\ t.issuetype = issue_type
    /\ <<"alert">> \in t.labels
    /\ t.status \notin resolved_status
    /\ GroupLabel(gk) \in t.labels

(* ------------------------------- state --------------------------------- *)
VARIABLES
    jira,        \* self.jira is set (the client is connected)
    threadpool,  \* self.threadpool is set (asynchronous mode)
    history,     \* self.history, newest first
    tickets,     \* the tickets JIRA holds; the key of a ticket is its index
    req,         \* the requests in flight, one per transport thread / worker
    nreq,        \* requests delivered so far
    dstage,      \* description specification: "none", "created", "edited", "updated"
    desc,        \* description specification: the ticket's description
    optext,      \* description specification: what the operator wrote above the marker
    lastr,       \* description specification: the last rendering sent
    nupd,        \* description specification: updates applied
    tlabels,     \* tags specification: the commonLabels handed to prepare_tags
    ttags,       \* tags specification: the list prepare_tags returned
    tstage       \* tags specification: "none", "called"

mgr == <<jira, threadpool, history, tickets, req, nreq>>
tvars == <<tlabels, ttags, tstage>>
dvars == <<dstage, desc, optext, lastr, nupd, tvars>>
vars == <<jira, threadpool, history, tickets, req, nreq, dstage, desc, optext, lastr, nupd,
          tlabels, ttags, tstage>>

Slots == {1, 2}

NoIssues == [created |-> <<>>, found |-> <<>>, updated |-> <<>>, resolved |-> <<>>]

NoPayload ==
    [version |-> "", status |-> "", groupKey |-> "",
     commonLabels |-> <<>>, annotation |-> <<>>]

IdleSlot ==
    [pc |-> "idle", entry |-> "", mode |-> "", project |-> None, issue_type |-> None,
     payload |-> NoPayload, resolved |-> FALSE, result |-> <<>>, idx |-> 0,
     issues |-> NoIssues, resp |-> <<>>, final |-> <<>>, raised |-> "",
     calls |-> <<>>, readyAtEntry |-> FALSE, poolAtEntry |-> FALSE, id |-> 0,
     after |-> {}]

\* Manager.response(status, code, issues); issues is <<>> for None
response(status, code, issues) == [status |-> status, code |-> code, issues |-> issues]

\* Event; `request` refers to the payload object of the request, which the
\* model names by the request's number
Event(project, issue_type, request, resp) ==
    [project |-> project, issue_type |-> issue_type, request |-> request, response |-> resp]

\* variant of record: nothing is dropped
record_KeepAll(h, project, issue_type, request, resp) ==
    <<(<<Event(project, issue_type, request, resp)>>)>> \o h

\* Manager.record: deque(maxlen=20).appendleft drops the oldest when full
record(h, project, issue_type, request, resp) ==
    LET ev == <<Event(project, issue_type, request, resp)>>
    IN  IF Len(h) >= HistorySize
        THEN <<ev>> \o SubSeq(h, 1, HistorySize - 1)
        ELSE <<ev>> \o h

\* variant of ready: the gate is always open
ready_Always == TRUE

\* Manager.ready
ready == jira

\* one remote call, as the ticket system sees it
Call(op, key, summary, description, labels, tid) ==
    [op |-> op, key |-> key, summary |-> summary, description |-> description,
     labels |-> labels, tid |-> tid]

\* the transport layer's threads are interchangeable: a request runs in the
\* first thread that never served one, else in the first that has finished
Free(s) ==
    IF \E o \in Slots : req[o].pc = "idle"
    THEN s = CHOOSE o \in Slots : req[o].pc = "idle" /\ \A u \in Slots : req[u].pc = "idle" => o <= u
    ELSE /\ req[s].pc = "done"
         /\ \A u \in Slots : req[u].pc = "done" => s <= u

\* do_file_issue: the slot and the history after the part of the handler that
\* runs before the first remote call.  A synchronous request goes on to the
\* search; every other request is answered at once and post_issues /
\* post_issues_with_project record the response.
do_file_issue(slot, project, issue_type, payload) ==
    IF ~ready
    THEN [slot EXCEPT !.pc = "done", !.resp = <<response("Not ready yet", 503, <<>>)>>]
    ELSE IF payload.version \notin {"3", "4"}
    THEN [slot EXCEPT !.pc = "done",
                      !.resp = <<response("unknown message version", 400, <<>>)>>]
    ELSE IF threadpool
    THEN [slot EXCEPT !.pc = "queued", !.mode = "async",
                      !.resp = <<response("OK (async)", 201, <<>>)>>]
    ELSE [slot EXCEPT !.pc = "search", !.mode = "sync"]

\* the caller's response is recorded as soon as the handler returns
RecordReturned(slot) ==
    IF slot.resp # <<>>
    THEN record(history, slot.project, slot.issue_type, slot.id, slot.resp[1])
    ELSE history

\* do_file_issue_sync, line 285
IsResolved(data) == data.status = "resolved"

\* a request as it enters its handler.  readyAtEntry (the client was
\* connected then), poolAtEntry (a thread pool was set then), id and after
\* (the requests that had ended by then) are bookkeeping of the model.
NewSlot(entry, project, issue_type, payload) ==
    [IdleSlot EXCEPT !.entry = entry, !.project = project, !.issue_type = issue_type,
                     !.payload = payload, !.resolved = IsResolved(payload),
                     !.readyAtEntry = jira, !.poolAtEntry = threadpool, !.id = nreq + 1,
                     !.after = {req[o].id : o \in {u \in Slots : req[u].pc = "done"}}]

\* Manager.post_issues (POST /issues)
post_issues(s, payload) ==
    /\ Free(s)
    /\ nreq < MaxRequests
    /\ LET common_labels == payload.commonLabels
           missing == "issue_type" \notin DOMAIN common_labels
                      \/ "project" \notin DOMAIN common_labels
           slot == IF missing
                   THEN [NewSlot("generic", None, None, payload) EXCEPT
                            !.pc = "done",
                            !.resp = <<response("Required commonLabels not found", 400, <<>>)>>]
                   ELSE do_file_issue(
                            NewSlot("generic", common_labels["project"],
                                    common_labels["issue_type"], payload),
                            common_labels["project"], common_labels["issue_type"], payload)
       IN  /\ req' = [req EXCEPT ![s] = slot]
           /\ history' = RecordReturned(slot)
    /\ nreq' = nreq + 1
    /\ UNCHANGED <<jira, threadpool, tickets, dvars>>

\* Manager.post_issues_with_project (POST /issues/<project>/<issue_type>)
post_issues_with_project(s, project, issue_type, payload) ==
    /\ Free(s)
    /\ nreq < MaxRequests
    /\ LET base == NewSlot("qualified", project, issue_type, payload)
           slot == IF payload.version \notin {"3", "4"}
                   THEN [base EXCEPT !.pc = "done",
                            !.resp = <<response("unknown message version", 400, <<>>)>>]
                   ELSE do_file_issue(base, project, issue_type, payload)
       IN  /\ req' = [req EXCEPT ![s] = slot]
           /\ history' = RecordReturned(slot)
    /\ nreq' = nreq + 1
    /\ UNCHANGED <<jira, threadpool, tickets, dvars>>

\* the asynchronous worker takes the queued call of do_file_issue_async
StartTask(s) ==
    /\ req[s].pc = "queued"
    /\ req' = [req EXCEPT ![s].pc = "search"]
    /\ UNCHANGED <<jira, threadpool, history, tickets, nreq, dvars>>

\* variant of Finish: the outcome also replaces the response already returned
Finish_Respond(slot) ==
    LET resp == response("OK", 200, <<slot.issues>>)
    IN  [slot |-> [slot EXCEPT !.pc = "done", !.final = <<resp>>, !.resp = <<resp>>],
         history |-> record(history, slot.project, slot.issue_type, slot.id, resp)]

\* do_file_issue_sync returned `issues`: the response is built and recorded
\* (sync: by do_file_issue and post_issues*; async: by do_file_issue_async)
Finish(slot) ==
    LET resp == response("OK", 200, <<slot.issues>>)
    IN  [slot |-> [slot EXCEPT !.pc = "done", !.final = <<resp>>,
                               !.resp = IF slot.mode = "sync" THEN <<resp>> ELSE @],
         history |-> record(history, slot.project, slot.issue_type, slot.id, resp)]

\* variant of Fail: the request goes on to the create after the exception
Fail_Resume(slot, exc) ==
    [slot |-> [slot EXCEPT !.pc = "create", !.raised = exc], history |-> history]

\* an exception left do_file_issue_sync.  do_file_issue_async catches
\* JIRAError only; the synchronous path has no handler at all.
Fail(slot, exc) ==
    IF slot.mode = "async" /\ exc = "JIRAError"
    THEN LET resp == response("JIRAError", 503, <<>>)
         IN  [slot |-> [slot EXCEPT !.pc = "done", !.final = <<resp>>],
              history |-> record(history, slot.project, slot.issue_type, slot.id, resp)]
    ELSE [slot |-> [slot EXCEPT !.pc = "done", !.raised = exc], history |-> history]

\* variants of ShouldCreate: the test of `result` lost, the test of `resolved` lost
ShouldCreate_NoResultTest(result, resolved) == ~resolved
ShouldCreate_NoResolvedTest(result, resolved) == result = <<>>

\* do_file_issue_sync, lines 311-313: a ticket is created when the search
\* found none and the payload is not resolved
ShouldCreate(result, resolved) == result = <<>> /\ ~resolved

\* do_file_issue_sync after its loop
AfterLoop(slot) ==
    IF ShouldCreate(slot.result, slot.resolved)
    THEN [slot |-> [slot EXCEPT !.pc = "create"], history |-> history]
    ELSE Finish(slot)

\* the orders in which JIRA may return the set S of keys
Orderings(S) ==
    {q \in [1..Cardinality(S) -> S] : \A i, j \in 1..Cardinality(S) : q[i] = q[j] => i = j}

MatchingKeys(project, issue_type, gk) ==
    {k \in 1..Len(tickets) : Matches(tickets[k], project, issue_type, gk)}

\* the view of a ticket that search_issues hands to the request
Snapshot(k) ==
    [key |-> k, labels |-> tickets[k].labels, description |-> tickets[k].description]

\* variant of Found: only the first ticket is listed
Found_FirstOnly(result) ==
    IF result = <<>> THEN <<>> ELSE <<Permalink(result[1].key)>>

\* issues["found"] = [issue.permalink() for issue in result]
Found(result) == [i \in 1..Len(result) |-> Permalink(result[i].key)]

\* self.jira.search_issues(query) succeeds; sorted(result, ...) is discarded,
\* so `result` keeps the order JIRA returned
SearchOk(s) ==
    /\ req[s].pc = "search"
    /\ jira
    /\ \E q \in Orderings(MatchingKeys(req[s].project, req[s].issue_type,
                                       req[s].payload.groupKey)) :
         LET slot == req[s]
             result == [i \in 1..Len(q) |-> Snapshot(q[i])]
             found == Found(result)
             slot1 == [slot EXCEPT
                          !.result = result,
                          !.issues = [@ EXCEPT !.found = found],
                          !.calls = Append(@, Call("search", 0, <<>>, <<>>, {}, ""))]
         IN  IF result # <<>>
             THEN /\ req' = [req EXCEPT ![s] = [slot1 EXCEPT !.pc = "update", !.idx = 1]]
                  /\ UNCHANGED history
             ELSE /\ req' = [req EXCEPT ![s] = AfterLoop(slot1).slot]
                  /\ history' = AfterLoop(slot1).history
    /\ UNCHANGED <<jira, threadpool, tickets, nreq, dvars>>

\* self.jira.search_issues raises JIRAError
SearchJiraError(s) ==
    /\ req[s].pc = "search"
    /\ jira
    /\ LET slot1 == [req[s] EXCEPT !.calls = Append(@, Call("search", 0, <<>>, <<>>, {}, ""))]
       IN  /\ req' = [req EXCEPT ![s] = Fail(slot1, "JIRAError").slot]
           /\ history' = Fail(slot1, "JIRAError").history
    /\ UNCHANGED <<jira, threadpool, tickets, nreq, dvars>>

\* self.jira is None (shutdown ran after the readiness check): attribute
\* lookup on None raises AttributeError
SearchNotConnected(s) ==
    /\ req[s].pc = "search"
    /\ ~jira
    /\ req' = [req EXCEPT ![s] = Fail(req[s], "AttributeError").slot]
    /\ history' = Fail(req[s], "AttributeError").history
    /\ UNCHANGED <<jira, threadpool, tickets, nreq, dvars>>

\* variant of ResolvedOnEntry: the parameter is kept
ResolvedOnEntry_Kept(resolved) == resolved

\* update_or_resolve_issue, line 221: the parameter is overwritten on entry
ResolvedOnEntry(resolved) == FALSE

\* update_or_resolve_issue up to the update: the transition branch.  With
\* ResolvedOnEntry the branch is never entered, so it is kept in one step.
TransitionPart(slot, issue, tks) ==
    LET resolved == ResolvedOnEntry(slot.resolved)
        valid_trans == SelectSeq(JiraTransitions(tks[issue.key]),
                           LAMBDA t : Lower(t.name) \in Range(resolve_transitions))
    IN  IF resolved
        THEN IF valid_trans # <<>>
             THEN [calls |-> <<Call("transitions", issue.key, <<>>, <<>>, {}, ""),
                               Call("close", issue.key, <<>>, <<>>, {}, valid_trans[1].id)>>,
                   tickets |-> [tks EXCEPT ![issue.key].status = valid_trans[1].to],
                   resolved |-> TRUE]
             ELSE [calls |-> <<Call("transitions", issue.key, <<>>, <<>>, {}, "")>>,
                   tickets |-> tks, resolved |-> resolved]
        ELSE [calls |-> <<>>, tickets |-> tks, resolved |-> resolved]

\* variant of Bucket: the permalink is appended to found once more
Bucket_Found(resolved) == "found"

\* do_file_issue_sync, line 310: where the permalink of the ticket goes
Bucket(resolved) == IF resolved THEN "resolved" ELSE "updated"

\* Manager.update_issue: what issue.update writes to the ticket
update_issue(t, issue, summary, description, tags) ==
    [t EXCEPT !.summary = summary,
              !.labels = MergeLabels(issue.labels, tags),
              !.description = UpdateDescription(issue.description, description)]

\* one turn of the loop of do_file_issue_sync: update_or_resolve_issue on
\* result[idx], the update succeeds
UpdateIssueOk(s) ==
    /\ req[s].pc = "update"
    /\ LET slot == req[s]
           issue == slot.result[slot.idx]
           data == slot.payload
           pre == TransitionPart(slot, issue, tickets)
           t2 == update_issue(pre.tickets[issue.key], issue, RenderSummary(data),
                              RenderDescription(data), Tags(data))
           which == Bucket(pre.resolved)
           slot1 == [slot EXCEPT
                        !.resolved = pre.resolved,
                        !.issues = [@ EXCEPT ![which] = Append(@, Permalink(issue.key))],
                        !.calls = @ \o pre.calls
                                  \o <<Call("update", issue.key, RenderSummary(data),
                                            t2.description, t2.labels, "")>>,
                        !.idx = @ + 1]
       IN  /\ tickets' = [pre.tickets EXCEPT
                             ![issue.key] = [t2 EXCEPT !.touched = @ \cup {data.groupKey}]]
           /\ IF slot.idx < Len(slot.result)
              THEN /\ req' = [req EXCEPT ![s] = slot1]
                   /\ UNCHANGED history
              ELSE /\ req' = [req EXCEPT ![s] = AfterLoop(slot1).slot]
                   /\ history' = AfterLoop(slot1).history
    /\ UNCHANGED <<jira, threadpool, nreq, dvars>>

\* issue.update raises JIRAError
UpdateIssueJiraError(s) ==
    /\ req[s].pc = "update"
    /\ LET slot == req[s]
           issue == slot.result[slot.idx]
           pre == TransitionPart(slot, issue, tickets)
           slot1 == [slot EXCEPT
                        !.calls = @ \o pre.calls
                                  \o <<Call("update", issue.key, <<>>, <<>>, {}, "")>>]
       IN  /\ tickets' = pre.tickets
           /\ req' = [req EXCEPT ![s] = Fail(slot1, "JIRAError").slot]
           /\ history' = Fail(slot1, "JIRAError").history
    /\ UNCHANGED <<jira, threadpool, nreq, dvars>>

\* variant of create_issue: the ticket is filed in a terminal status
create_issue_Terminal(project, issue_type, summary, description, tags) ==
    [project |-> project, issuetype |-> issue_type, status |-> "closed",
     labels |-> Range(tags), summary |-> summary,
     description |-> CreateDescription(description),
     creator |-> "engine", touched |-> {}]

\* variant of create_issue: the labels are not sent
create_issue_NoLabels(project, issue_type, summary, description, tags) ==
    [project |-> project, issuetype |-> issue_type, status |-> "open",
     labels |-> {}, summary |-> summary,
     description |-> CreateDescription(description),
     creator |-> "engine", touched |-> {}]

\* what self.jira.create_issue is sent
create_issue(project, issue_type, summary, description, tags) ==
    [project |-> project, issuetype |-> issue_type, status |-> "open",
     labels |-> Range(tags), summary |-> summary,
     description |-> CreateDescription(description),
     creator |-> "engine", touched |-> {}]

\* self.jira.create_issue succeeds (JIRA refuses an empty project or type)
CreateIssueOk(s) ==
    /\ req[s].pc = "create"
    /\ jira
    /\ Len(tickets) < MaxTickets
    /\ req[s].project # <<>> /\ req[s].issue_type # <<>>
    /\ LET slot == req[s]
           data == slot.payload
           t == create_issue(slot.project, slot.issue_type, RenderSummary(data),
                             RenderDescription(data), Tags(data))
           key == Len(tickets) + 1
           slot1 == [slot EXCEPT
                        !.issues = [@ EXCEPT !.created = Append(@, Permalink(key))],
                        !.calls = Append(@, Call("create", key, t.summary,
                                                 t.description, t.labels, ""))]
       IN  /\ tickets' = Append(tickets, [t EXCEPT !.touched = {data.groupKey}])
           /\ req' = [req EXCEPT ![s] = Finish(slot1).slot]
           /\ history' = Finish(slot1).history
    /\ UNCHANGED <<jira, threadpool, nreq, dvars>>

\* self.jira.create_issue raises JIRAError
CreateIssueJiraError(s) ==
    /\ req[s].pc = "create"
    /\ jira
    /\ LET slot1 == [req[s] EXCEPT !.calls = Append(@, Call("create", 0, <<>>, <<>>, {}, ""))]
       IN  /\ req' = [req EXCEPT ![s] = Fail(slot1, "JIRAError").slot]
           /\ history' = Fail(slot1, "JIRAError").history
    /\ UNCHANGED <<jira, threadpool, tickets, nreq, dvars>>

\* self.jira is None when create_issue is reached
CreateNotConnected(s) ==
    /\ req[s].pc = "create"
    /\ ~jira
    /\ req' = [req EXCEPT ![s] = Fail(req[s], "AttributeError").slot]
    /\ history' = Fail(req[s], "AttributeError").history
    /\ UNCHANGED <<jira, threadpool, tickets, nreq, dvars>>

\* Manager.connect
connect ==
    /\ ~jira
    /\ jira' = TRUE
    /\ UNCHANGED <<threadpool, history, tickets, req, nreq, dvars>>

\* Manager.shutdown (self.jira.close() needs a client)
shutdown ==
    /\ jira
    /\ jira' = FALSE
    /\ threadpool' = FALSE
    /\ UNCHANGED <<history, tickets, req, nreq, dvars>>

(* ------------------------- the specification --------------------------- *)
Init ==
    /\ jira = FALSE
    /\ threadpool \in BOOLEAN
    /\ history = [i \in 1..HistorySize |-> <<>>]
    /\ tickets = <<PreexistingTicket>>
    /\ req = [s \in Slots |-> IdleSlot]
    /\ nreq = 0
    /\ dstage = "none" /\ desc = <<>> /\ optext = <<>> /\ lastr = <<>> /\ nupd = 0
    /\ tlabels = <<>> /\ ttags = <<>> /\ tstage = "none"

Next ==
    \/ connect
    \/ shutdown
    \/ \E s \in Slots, payload \in Payloads : post_issues(s, payload)
    \/ \E s \in Slots, project \in PathProjects, issue_type \in PathIssueTypes,
          payload \in Payloads : post_issues_with_project(s, project, issue_type, payload)
    \/ \E s \in Slots : StartTask(s)
    \/ \E s \in Slots : SearchOk(s)
    \/ \E s \in Slots : SearchJiraError(s)
    \/ \E s \in Slots : SearchNotConnected(s)
    \/ \E s \in Slots : UpdateIssueOk(s)
    \/ \E s \in Slots : UpdateIssueJiraError(s)
    \/ \E s \in Slots : CreateIssueOk(s)
    \/ \E s \in Slots : CreateIssueJiraError(s)
    \/ \E s \in Slots : CreateNotConnected(s)

Spec == Init /\ [][Next]_vars

(* ----------------------- the loop specification ------------------------ *)
\* The same Manager on a store where the search for G1 returns two tickets,
\* so that the loop of do_file_issue_sync takes more than one turn.
LoopPayloads ==
    {p \in Payloads :
        /\ p.version = "4"
        /\ p.commonLabels \in {cl \in RoutedLabels : "severity" \notin DOMAIN cl}
        /\ p.groupKey = "G1" \/ p.status = "firing"}

InitLoop ==
    /\ jira = FALSE
    /\ threadpool \in BOOLEAN
    /\ history = [i \in 1..HistorySize |-> <<>>]
    /\ tickets = <<PreexistingTicket, DuplicateTicket>>
    /\ req = [s \in Slots |-> IdleSlot]
    /\ nreq = 0
    /\ dstage = "none" /\ desc = <<>> /\ optext = <<>> /\ lastr = <<>> /\ nupd = 0
    /\ tlabels = <<>> /\ ttags = <<>> /\ tstage = "none"

NextLoop ==
    \/ connect
    \/ shutdown
    \/ \E s \in Slots, payload \in LoopPayloads : post_issues(s, payload)
    \/ \E s \in Slots, project \in PathProjects, issue_type \in PathIssueTypes,
          payload \in LoopPayloads : post_issues_with_project(s, project, issue_type, payload)
    \/ \E s \in Slots : StartTask(s)
    \/ \E s \in Slots : SearchOk(s)
    \/ \E s \in Slots : SearchJiraError(s)
    \/ \E s \in Slots : SearchNotConnected(s)
    \/ \E s \in Slots : UpdateIssueOk(s)
    \/ \E s \in Slots : UpdateIssueJiraError(s)
    \/ \E s \in Slots : CreateIssueOk(s)
    \/ \E s \in Slots : CreateIssueJiraError(s)
    \/ \E s \in Slots : CreateNotConnected(s)

SpecLoop == InitLoop /\ [][NextLoop]_vars

(* ------------------ the description specification --------------------- *)
\* The description of one ticket under create_issue, update_issue and the
\* operator's edits, with renderings that quote the payload's annotation.
DescAnnotations ==
    {<<"summary text">>, <<"disk full">>,
     <<"see", DESCRIPTION_BOUNDARY, "in the runbook">>}

DescPayloads ==
    [version : {"4"}, status : {"firing"}, groupKey : {"G1"},
     commonLabels : {cl \in RoutedLabels : "severity" \notin DOMAIN cl},
     annotation : DescAnnotations]

OperatorTexts ==
    {<<"operator notes">>, <<" ", "operator notes", "\n">>,
     <<"line one", "\n", "line two", "\n", "\n">>}

Min(S) == CHOOSE x \in S : \A y \in S : x <= y

\* create_issue on a payload: the ticket starts with the engine's description
DescCreate(data) ==
    /\ dstage = "none"
    /\ desc' = create_issue(data.commonLabels["project"], data.commonLabels["issue_type"],
                            RenderSummary(data), RenderDescription(data),
                            Tags(data)).description
    /\ optext' = <<>>
    /\ lastr' = RenderDescription(data)
    /\ dstage' = "created"
    /\ UNCHANGED <<nupd, mgr, tvars>>

\* the operator replaces what stands above the (first) marker by text
DescOperatorEdit(text) ==
    /\ dstage \in {"created", "updated"}
    /\ Occurrences(desc, DESCRIPTION_BOUNDARY) # {}
    /\ desc' = text \o SubSeq(desc, Min(Occurrences(desc, DESCRIPTION_BOUNDARY)), Len(desc))
    /\ optext' = text
    /\ dstage' = "edited"
    /\ UNCHANGED <<lastr, nupd, mgr, tvars>>

\* update_issue on a payload, the ticket read just before
DescUpdate(data) ==
    /\ dstage # "none"
    /\ nupd < MaxUpdates
    /\ desc' = UpdateDescription(desc, RenderDescription(data))
    /\ lastr' = RenderDescription(data)
    /\ nupd' = nupd + 1
    /\ dstage' = "updated"
    /\ UNCHANGED <<optext, mgr, tvars>>

InitDesc ==
    /\ jira = FALSE
    /\ threadpool = FALSE
    /\ history = [i \in 1..HistorySize |-> <<>>]
    /\ tickets = <<>>
    /\ req = [s \in Slots |-> IdleSlot]
    /\ nreq = 0
    /\ dstage = "none" /\ desc = <<>> /\ optext = <<>> /\ lastr = <<>> /\ nupd = 0
    /\ tlabels = <<>> /\ ttags = <<>> /\ tstage = "none"

NextDesc ==
    \/ \E data \in DescPayloads : DescCreate(data)
    \/ \E text \in OperatorTexts : DescOperatorEdit(text)
    \/ \E data \in DescPayloads : DescUpdate(data)

SpecDesc == InitDesc /\ [][NextDesc]_vars

(* ---------------------- the history specification ---------------------- *)
\* Manager.record on a history that already holds k events of earlier
\* requests (numbered -1, the newest, to -k, the oldest).
EarlierHistory(k) ==
    [i \in 1..HistorySize |->
        IF i <= k
        THEN <<Event(<<"FOO">>, <<"Alert">>, 0 - i, response("OK", 200, <<NoIssues>>))>>
        ELSE <<>>]

\* what post_issues, post_issues_with_project and do_file_issue_async record
HistEvents ==
    {[project |-> <<"FOO">>, issue_type |-> <<"Alert">>,
      response |-> response("OK", 200, <<NoIssues>>)],
     [project |-> <<"FOO">>, issue_type |-> <<"Alert">>,
      response |-> response("Not ready yet", 503, <<>>)],
     [project |-> None, issue_type |-> None,
      response |-> response("Required commonLabels not found", 400, <<>>)]}

RecordEvent(e) ==
    /\ nreq < MaxRecords
    /\ history' = record(history, e.project, e.issue_type, nreq + 1, e.response)
    /\ nreq' = nreq + 1
    /\ UNCHANGED <<jira, threadpool, tickets, req, dvars>>

InitHist ==
    /\ jira = FALSE
    /\ threadpool = FALSE
    /\ history \in {EarlierHistory(k) : k \in {0, HistorySize - 1, HistorySize}}
    /\ tickets = <<>>
    /\ req = [s \in Slots |-> IdleSlot]
    /\ nreq = 0
    /\ dstage = "none" /\ desc = <<>> /\ optext = <<>> /\ lastr = <<>> /\ nupd = 0
    /\ tlabels = <<>> /\ ttags = <<>> /\ tstage = "none"

NextHist == \E e \in HistEvents : RecordEvent(e)

SpecHist == InitHist /\ [][NextHist]_vars

(* ------------------------ the tags specification ----------------------- *)
\* prepare_tags as a function of commonLabels.  The value of a label is the
\* sequence of its characters.
TagChars == {"a", "b", " ", ","}

RECURSIVE SeqsUpTo(_, _)
SeqsUpTo(S, n) ==
    IF n = 0 THEN {<<>>}
    ELSE SeqsUpTo(S, n - 1)
         \cup {Append(q, c) : q \in {r \in SeqsUpTo(S, n - 1) : Len(r) = n - 1}, c \in S}

TagValues == SeqsUpTo(TagChars, MaxTagLen)

\* commonLabels with a `tags` label alone, with a `tags` label next to other
\* labels, and without one
TagLabels ==
    {[k \in {"tags"} |-> v] : v \in TagValues}
    \cup
    {[k \in {"project", "severity", "tags"} |->
         CASE k = "project" -> <<"F">>
           [] k = "severity" -> <<"a">>
           [] k = "tags" -> v] : v \in {w \in TagValues : Len(w) <= 1}}
    \cup
    {[k \in {"project", "issue_type"} |-> <<"F">>],
     [k \in {"severity", "jiralert"} |-> IF k = "severity" THEN <<>> ELSE <<"b">>]}

CallPrepareTags ==
    /\ tstage = "none"
    /\ ttags' = prepare_tags(tlabels)
    /\ tstage' = "called"
    /\ UNCHANGED <<tlabels, mgr, dstage, desc, optext, lastr, nupd>>

InitTags ==
    /\ jira = FALSE
    /\ threadpool = FALSE
    /\ history = [i \in 1..HistorySize |-> <<>>]
    /\ tickets = <<>>
    /\ req = [s \in Slots |-> IdleSlot]
    /\ nreq = 0
    /\ dstage = "none" /\ desc = <<>> /\ optext = <<>> /\ lastr = <<>> /\ nupd = 0
    /\ tlabels \in TagLabels /\ ttags = <<>> /\ tstage = "none"

NextTags == CallPrepareTags

SpecTags == InitTags /\ [][NextTags]_vars

TypeOK ==
    /\ jira \in BOOLEAN /\ threadpool \in BOOLEAN
    /\ Len(history) = HistorySize
    /\ Len(tickets) <= MaxTickets
    /\ nreq \in 0..(MaxRequests + MaxRecords)

(* ------------------------------ claims --------------------------------- *)
Done(s) == req[s].pc = "done"

\* the reconciliation of the request in s returned its outcome
Completed(s) == Done(s) /\ req[s].final # <<>> /\ req[s].final[1].code = 200

Outcome(s) == req[s].final[1].issues[1]

NumCalls(s, op) == Cardinality({i \in 1..Len(req[s].calls) : req[s].calls[i].op = op})

CallOps(s) == [i \in 1..Len(req[s].calls) |-> req[s].calls[i].op]

FoundLinks(s) == [i \in 1..Len(req[s].result) |-> Permalink(req[s].result[i].key)]

\* C1: a firing payload reconciled against a store that holds the matching
\* open ticket lists it under found and updated, creates nothing and makes no
\* create call; the ticket carries the group label before the call (in the
\* view the search returned) and in every state after it.  Holding in every
\* reachable state, this covers the second delivery of the same payload.
C1_Idempotent ==
    \A s \in Slots :
        (Completed(s) /\ req[s].payload.status = "firing" /\ req[s].result # <<>>) =>
            /\ Outcome(s).found = FoundLinks(s)
            /\ Outcome(s).updated = FoundLinks(s)
            /\ Outcome(s).created = <<>>
            /\ NumCalls(s, "create") = 0
            /\ \A i \in 1..Len(req[s].result) :
                 /\ GroupLabel(req[s].payload.groupKey) \in req[s].result[i].labels
                 /\ GroupLabel(req[s].payload.groupKey)
                        \in tickets[req[s].result[i].key].labels

\* the same firing payload delivered twice, the second after the first had
\* ended, both updating ticket 1
C1_Witness ==
    \E s1, s2 \in Slots :
        /\ Completed(s1) /\ Completed(s2)
        /\ req[s1].id \in req[s2].after
        /\ req[s1].payload = req[s2].payload
        /\ req[s1].payload.status = "firing"
        /\ Outcome(s1).updated = <<Permalink(1)>>
        /\ Outcome(s2).updated = <<Permalink(1)>>
        /\ Outcome(s2).created = <<>>

\* C2: a firing request whose search returned nothing makes exactly one
\* create call, carrying the rendered summary and description and the tags
\* with the group label, and its outcome holds the new ticket's permalink
\* under created and nothing else; no request makes two create calls.
C2_CreateOnNoMatch ==
    \A s \in Slots :
        /\ NumCalls(s, "create") <= 1
        /\ (Completed(s) /\ req[s].payload.status = "firing" /\ req[s].result = <<>>) =>
            /\ req[s].readyAtEntry
            /\ req[s].payload.version \in {"3", "4"}
            /\ CallOps(s) = <<"search", "create">>
            /\ LET c == req[s].calls[2]
                   data == req[s].payload
               IN  /\ c.summary = RenderSummary(data)
                   /\ c.description = CreateDescription(RenderDescription(data))
                   /\ c.labels = Range(prepare_tags(data.commonLabels))
                                 \cup {GroupLabel(data.groupKey)}
                   /\ c.key \in 1..Len(tickets)
                   /\ tickets[c.key].project = req[s].project
                   /\ tickets[c.key].issuetype = req[s].issue_type
                   /\ Outcome(s) = [created |-> <<Permalink(c.key)>>, found |-> <<>>,
                                    updated |-> <<>>, resolved |-> <<>>]

C2_Witness ==
    \E s \in Slots :
        /\ Completed(s) /\ req[s].payload.status = "firing" /\ req[s].result = <<>>
        /\ Outcome(s).created = <<Permalink(Len(tickets))>>
        /\ tickets[Len(tickets)].creator = "engine"

\* C3: a resolved payload never leads to a create call, and when its search
\* returned nothing the search is the only remote call and all four lists of
\* the outcome are empty.
C3_ResolvedNeverFiled ==
    \A s \in Slots :
        req[s].payload.status = "resolved" =>
            /\ req[s].pc # "create"
            /\ NumCalls(s, "create") = 0
            /\ (Completed(s) /\ req[s].result = <<>>) =>
                   /\ CallOps(s) = <<"search">>
                   /\ Outcome(s) = NoIssues

C3_Witness ==
    \E s \in Slots :
        /\ Completed(s) /\ req[s].payload.status = "resolved" /\ req[s].result = <<>>
        /\ Outcome(s) = NoIssues
        /\ CallOps(s) = <<"search">>

\* the transitions of ticket k that the allow-list names, in JIRA's order
ValidTransitions(t) ==
    SelectSeq(JiraTransitions(t), LAMBDA tr : Lower(tr.name) \in Range(resolve_transitions))

\* C4: a resolved payload whose search returned one open ticket that offers a
\* resolving transition executes exactly one transition, the first matching
\* one, and lists the ticket under resolved and not under updated.
C4_ResolveMatching ==
    \A s \in Slots :
        (/\ Completed(s) /\ req[s].payload.status = "resolved"
         /\ Len(req[s].result) = 1
         /\ ValidTransitions([status |-> "open"]) # <<>>) =>
            /\ NumCalls(s, "close") = 1
            /\ \E i \in 1..Len(req[s].calls) :
                 /\ req[s].calls[i].op = "close"
                 /\ req[s].calls[i].tid = ValidTransitions([status |-> "open"])[1].id
            /\ Outcome(s).resolved = FoundLinks(s)
            /\ Outcome(s).updated = <<>>

\* C5: a request whose version is neither "3" nor "4" is answered 400 and
\* makes no remote call, on both entry points and in both modes.
C5_UnsupportedVersion ==
    \A s \in Slots :
        (req[s].pc # "idle" /\ req[s].payload.version \notin {"3", "4"}) =>
            /\ Done(s)
            /\ req[s].calls = <<>>
            /\ req[s].resp # <<>>
            /\ req[s].resp[1].code = 400

\* the generic entry point finds a routing label missing
LabelsMissing(data) ==
    "issue_type" \notin DOMAIN data.commonLabels \/ "project" \notin DOMAIN data.commonLabels

\* C6 as stated: every request that arrives while the client is not
\* connected is answered 503 and makes no remote call.
C6_AllNotReady ==
    \A s \in Slots :
        (req[s].pc # "idle" /\ ~req[s].readyAtEntry) =>
            /\ Done(s)
            /\ req[s].calls = <<>>
            /\ req[s].resp # <<>>
            /\ req[s].resp[1].code = 503

\* C6, amended: a request that arrives while the client is not connected
\* makes no remote call and is rejected at once: with 400 when the generic
\* entry point finds a routing label missing or the qualified entry point
\* finds an unsupported version, with 503 in every other case.
C6_NotReadyGate ==
    \A s \in Slots :
        (req[s].pc # "idle" /\ ~req[s].readyAtEntry) =>
            /\ Done(s)
            /\ req[s].calls = <<>>
            /\ req[s].final = <<>>
            /\ req[s].resp # <<>>
            /\ req[s].resp[1].code =
                 IF \/ req[s].entry = "generic" /\ LabelsMissing(req[s].payload)
                    \/ req[s].entry = "qualified"
                       /\ req[s].payload.version \notin {"3", "4"}
                 THEN 400 ELSE 503

\* a request rejected with 503 after shutdown: an earlier request had been
\* reconciled, so the client was connected before
C6_Witness ==
    \E s1, s2 \in Slots :
        /\ Completed(s1)
        /\ req[s1].id \in req[s2].after
        /\ Done(s2) /\ ~req[s2].readyAtEntry
        /\ req[s2].resp # <<>> /\ req[s2].resp[1].code = 503
        /\ req[s2].calls = <<>>

\* the request has no usable routing: a label absent or empty
RoutingMissing(s) ==
    \/ req[s].entry = "generic" /\ LabelsMissing(req[s].payload)
    \/ req[s].entry = "generic" /\ ~LabelsMissing(req[s].payload)
       /\ (req[s].payload.commonLabels["project"] = <<>>
           \/ req[s].payload.commonLabels["issue_type"] = <<>>)

\* C7: a request without usable routing is answered 400 and makes no remote
\* call.  Stated for the requests that pass the other two checks (client
\* connected, version supported), where routing alone decides.
C7_MissingRouting ==
    \A s \in Slots :
        (/\ req[s].pc # "idle" /\ RoutingMissing(s)
         /\ req[s].readyAtEntry /\ req[s].payload.version \in {"3", "4"}) =>
            /\ Done(s)
            /\ req[s].calls = <<>>
            /\ req[s].resp # <<>>
            /\ req[s].resp[1].code = 400

\* C8: every ticket the engine created or updated for a group carries that
\* group's jiralert label, in every reachable state.
C8_DurableTag ==
    \A k \in 1..Len(tickets) :
        \A g \in tickets[k].touched : GroupLabel(g) \in tickets[k].labels

\* a ticket updated for G1 and a ticket created for G2
C8_Witness ==
    /\ Len(tickets) >= 2
    /\ "G1" \in tickets[1].touched
    /\ tickets[1].creator = "operator"
    /\ \E k \in 2..Len(tickets) : tickets[k].creator = "engine" /\ "G2" \in tickets[k].touched

\* the step is the update of ticket result[idx] by the request in s
UpdateStep(s) == req[s].pc = "update" /\ req'[s].idx = req[s].idx + 1

\* C9 as stated: no step removes a label from a ticket.
C9_NoLabelLost ==
    [][\A k \in 1..Len(tickets) : tickets[k].labels \subseteq tickets'[k].labels]_vars

\* C9, amended: an update sets the labels of the ticket to the labels the
\* ticket had when the request's search returned it, united with the tags of
\* the payload; the labels of a ticket change in no other step.  (A label put
\* on the ticket between the search and the update is overwritten.)
C9_LabelUnion ==
    [][/\ \A s \in Slots :
            UpdateStep(s) =>
                LET issue == req[s].result[req[s].idx]
                IN  tickets'[issue.key].labels =
                        issue.labels \cup Range(prepare_tags(req[s].payload.commonLabels))
                                     \cup {GroupLabel(req[s].payload.groupKey)}
       /\ \A k \in 1..Len(tickets) :
            tickets'[k].labels # tickets[k].labels =>
                \E s \in Slots : UpdateStep(s) /\ req[s].result[req[s].idx].key = k
      ]_vars

\* ticket 1 was updated with a payload that carries a severity and still has
\* the operator's label
C9_Witness ==
    /\ tickets[1].touched # {}
    /\ CustomLabel \in tickets[1].labels
    /\ <<"severity", ":", "crit">> \in tickets[1].labels


\* C10: after an update the description is the operator's text (without its
\* surrounding blank space), the marker and the latest rendering, nothing
\* else: one machine-generated section; and the same update applied once more
\* leaves the description as it is.
C10_DescriptionBoundary ==
    dstage = "updated" =>
        /\ desc = Strip(optext) \o <<"\n", "\n", DESCRIPTION_BOUNDARY, "\n">> \o lastr
        /\ UpdateDescription(desc, lastr) = desc

\* C11: in the outcome of a reconciliation that returned, found holds the
\* permalink of every ticket the search returned, once each and nothing
\* else, whether the ticket was then listed under updated or under resolved.
C11_FoundComplete ==
    \A s \in Slots :
        Completed(s) =>
            LET f == Outcome(s).found
                r == req[s].result
            IN  /\ Len(f) = Len(r)
                /\ \A i \in 1..Len(r) :
                     Cardinality({j \in 1..Len(f) : f[j] = <<"browse", r[i].key>>}) = 1
                /\ \A i \in 1..Len(req[s].calls) :
                     req[s].calls[i].op = "update" =>
                         \E j \in 1..Len(f) : f[j] = <<"browse", req[s].calls[i].key>>

\* a search that returned two tickets, both updated and both under found
C11_Witness ==
    \E s \in Slots :
        /\ Completed(s)
        /\ Len(req[s].result) = 2
        /\ Range(Outcome(s).found) = {Permalink(1), Permalink(2)}
        /\ Len(Outcome(s).updated) + Len(Outcome(s).resolved) = 2

\* a remote call of the request in s raised JIRAError
JiraFailed(s) ==
    \/ req[s].raised = "JIRAError"
    \/ req[s].final # <<>> /\ req[s].final[1].code = 503

\* C12: the step in which a remote call fails adds that one call and changes
\* no ticket (what earlier turns of the loop wrote stays), and after it the
\* request makes no further remote call: it has ended.
C12_AbortNoRollback ==
    [][\A s \in Slots :
          /\ (~JiraFailed(s) /\ JiraFailed(s)') =>
                /\ tickets' = tickets
                /\ Len(req'[s].calls) = Len(req[s].calls) + 1
                /\ SubSeq(req'[s].calls, 1, Len(req[s].calls)) = req[s].calls
                /\ req'[s].pc = "done"
          /\ (JiraFailed(s) /\ req'[s].id = req[s].id) =>
                /\ req'[s].calls = req[s].calls
                /\ req'[s].pc = "done"
      ]_vars

\* the search returned two tickets, the update of the first succeeded and the
\* update of the second failed: the first carries the payload's summary, the
\* second was not touched and nothing was created
C12_Witness ==
    \E s \in Slots :
        /\ JiraFailed(s) /\ Done(s)
        /\ \A o \in Slots \ {s} : req[o].pc = "idle"
        /\ Len(req[s].result) = 2
        /\ CallOps(s) = <<"search", "update", "update">>
        /\ tickets[req[s].result[1].key].summary = RenderSummary(req[s].payload)
        /\ req[s].payload.groupKey \in tickets[req[s].result[1].key].touched
        /\ tickets[req[s].result[2].key].touched = {}
        /\ Len(tickets) = 2

\* the history holds an entry of the request in s with response resp
Recorded(s, resp) ==
    \E i \in 1..Len(history) :
        /\ history[i] # <<>>
        /\ history[i][1].request = req[s].id
        /\ history[i][1].response = resp

\* C13: a request one of whose remote calls raised JIRAError ends with a 503
\* and made no call after the failed one; in synchronous mode the 503 is the
\* response returned and it is recorded, in asynchronous mode the 503 is the
\* outcome recorded.
C13_FailureRetryable ==
    \A s \in Slots :
        JiraFailed(s) =>
            /\ Done(s)
            /\ req[s].mode = "sync" =>
                   /\ req[s].resp # <<>>
                   /\ req[s].resp[1].code = 503
                   /\ Recorded(s, req[s].resp[1])
            /\ req[s].mode = "async" =>
                   /\ req[s].final # <<>>
                   /\ req[s].final[1].code = 503
                   /\ Recorded(s, req[s].final[1])

\* the request passes the checks of its entry point and of do_file_issue
ValidRequest(s) ==
    /\ req[s].payload.version \in {"3", "4"}
    /\ req[s].entry = "generic" => ~LabelsMissing(req[s].payload)

\* C14: a valid request that arrives while the client is connected and a
\* thread pool is set is answered "OK (async)", 201, without issues; while
\* its task is queued no remote call has been made for it; and the response
\* stays what it was when the task has run, whatever the outcome.
C14_AsyncAck ==
    \A s \in Slots :
        (req[s].pc # "idle" /\ req[s].readyAtEntry /\ req[s].poolAtEntry
         /\ ValidRequest(s)) =>
            /\ req[s].mode = "async"
            /\ req[s].resp = <<response("OK (async)", 201, <<>>)>>
            /\ Recorded(s, req[s].resp[1])
            /\ req[s].pc = "queued" => (req[s].calls = <<>> /\ req[s].final = <<>>)

\* an asynchronous request whose task created a ticket: the outcome is in the
\* history and the response is still the acknowledgment
C14_Witness ==
    \E s \in Slots :
        /\ req[s].mode = "async" /\ Completed(s)
        /\ Outcome(s).created # <<>>
        /\ Recorded(s, req[s].final[1])
        /\ req[s].resp[1].code = 201 /\ req[s].resp[1].issues = <<>>

\* C15: an asynchronous request whose task has ended has a history entry
\* holding the outcome of the task, whatever way the task ended; and while
\* the task has not ended the history holds no outcome for it.
C15_AsyncRecorded ==
    \A s \in Slots :
        req[s].mode = "async" =>
            /\ Done(s) => (req[s].final # <<>> /\ Recorded(s, req[s].final[1]))
            /\ ~Done(s) =>
                   \A i \in 1..Len(history) :
                       (history[i] # <<>> /\ history[i][1].request = req[s].id) =>
                           history[i][1].response = req[s].resp[1]

\* the events the history holds (the empty places left out)
Entries(h) == {i \in 1..Len(h) : h[i] # <<>>}

\* C16: the history never holds more than HistorySize entries; a record puts
\* the new event first, keeps every other event in its order, and drops
\* exactly the last place: the oldest event when the history is full.
C16_HistoryCapacity ==
    [][/\ Len(history) <= HistorySize
       /\ Cardinality(Entries(history')) <= HistorySize
       /\ history' # history =>
             /\ Len(history') = Len(history)
             /\ history'[1] # <<>>
             /\ history'[1][1].request = nreq'
             /\ \A i \in 2..Len(history') : history'[i] = history[i - 1]
             /\ Cardinality(Entries(history')) =
                    IF Cardinality(Entries(history)) = HistorySize
                    THEN HistorySize ELSE Cardinality(Entries(history)) + 1
      ]_vars

\* a full history after records that dropped events of earlier requests: the
\* newest entries are the recorded ones, the oldest left is an earlier one
C16_Witness ==
    /\ nreq = MaxRecords
    /\ Cardinality(Entries(history)) = HistorySize
    /\ history[1][1].request = nreq
    /\ history[HistorySize][1].request = 0 - (HistorySize - MaxRecords)

\* the request in s1 came by the generic entry point and the request in s2
\* by the qualified one, with the same payload, the project and issue type
\* of s2 being those of the payload's labels, the engine being in the same
\* condition (connected or not, thread pool or not) at both arrivals
SameRequest(s1, s2) ==
    /\ req[s1].entry = "generic" /\ req[s2].entry = "qualified"
    /\ req[s1].payload = req[s2].payload
    /\ ~LabelsMissing(req[s1].payload)
    /\ req[s1].payload.commonLabels["project"] = req[s2].project
    /\ req[s1].payload.commonLabels["issue_type"] = req[s2].issue_type
    /\ req[s1].readyAtEntry = req[s2].readyAtEntry
    /\ req[s1].poolAtEntry = req[s2].poolAtEntry

\* C17: the two entry points answer such a pair of requests with the same
\* status code and treat them the same way: both rejected without a remote
\* call, both reconciled in the handler, or both handed to the thread pool.
C17_EntryPointEquivalence ==
    \A s1, s2 \in Slots :
        (SameRequest(s1, s2) /\ req[s1].resp # <<>> /\ req[s2].resp # <<>>) =>
            /\ req[s1].resp[1].code = req[s2].resp[1].code
            /\ req[s1].mode = req[s2].mode

\* the step is the create of the request in s
CreateStep(s) ==
    /\ req[s].pc = "create" /\ req'[s].pc = "done"
    /\ Len(tickets') = Len(tickets) + 1

\* C18: the create is decided on the request's own search alone and nothing
\* serializes it: a request creates after one remote call, its search, which
\* returned nothing; the step adds a non-terminal ticket with the group's
\* jiralert label whatever the store holds by then, and changes no other
\* ticket.
C18_CreateOnOwnSearch ==
    [][\A s \in Slots :
          CreateStep(s) =>
              LET t == tickets'[Len(tickets')]
              IN  /\ req[s].result = <<>>
                  /\ CallOps(s) = <<"search">>
                  /\ SubSeq(tickets', 1, Len(tickets)) = tickets
                  /\ GroupLabel(req[s].payload.groupKey) \in t.labels
                  /\ <<"alert">> \in t.labels
                  /\ t.status \notin resolved_status
                  /\ t.project = req[s].project /\ t.issuetype = req[s].issue_type
      ]_vars

\* two firing requests of one group that overlapped, both with an empty
\* search result, both created a ticket: two open tickets with the same
\* jiralert label, both matching the search of that group
C18_Witness ==
    \E s1, s2 \in Slots :
        /\ s1 # s2
        /\ Completed(s1) /\ Completed(s2)
        /\ req[s1].payload.status = "firing" /\ req[s2].payload.status = "firing"
        /\ req[s1].payload.groupKey = req[s2].payload.groupKey
        /\ req[s1].id \notin req[s2].after /\ req[s2].id \notin req[s1].after
        /\ req[s1].result = <<>> /\ req[s2].result = <<>>
        /\ Len(Outcome(s1).created) = 1 /\ Len(Outcome(s2).created) = 1
        /\ Outcome(s1).created # Outcome(s2).created
        /\ Cardinality(MatchingKeys(req[s1].project, req[s1].issue_type,
                                    req[s1].payload.groupKey)) = 2

\* the groups whose jiralert label ticket t carries
GroupsOf(t) == {g \in GroupKeys : GroupLabel(g) \in t.labels}

\* C19: every ticket belongs to one alert group: it carries the jiralert
\* label of one group only, and only reconciliations of that group created
\* or updated it.
C19_GroupIsolation ==
    \A k \in 1..Len(tickets) :
        Cardinality(tickets[k].touched \cup GroupsOf(tickets[k])) <= 1

\* the requests delivered so far
Delivered == {s \in Slots : req[s].pc # "idle"}

\* so far only group g was reconciled, in the handler (no thread pool), and
\* no two requests overlapped: each had ended when the next arrived (every
\* request delivered so far is still held by its thread)
SequentialFor(g) ==
    /\ Cardinality(Delivered) = nreq
    /\ \A s \in Delivered : req[s].payload.groupKey = g /\ req[s].mode # "async"
    /\ \A s1, s2 \in Delivered :
           s1 # s2 => (req[s1].id \in req[s2].after \/ req[s2].id \in req[s1].after)

\* the non-terminal tickets that carry the jiralert label of g
OpenTicketsOf(g) ==
    {k \in 1..Len(tickets) :
        GroupLabel(g) \in tickets[k].labels /\ tickets[k].status \notin resolved_status}

\* C20 as stated: G2 has no ticket when the run starts; after reconciliations
\* of G2 that did not overlap, at most one non-terminal ticket carries the
\* label of G2.
C20_AtMostOne ==
    SequentialFor("G2") => Cardinality(OpenTicketsOf("G2")) <= 1

\* no other request ran while the request in s did: every other thread is
\* idle or holds a request that had ended when the one in s arrived
NonOverlapped(s) ==
    \A o \in Slots \ {s} :
        req[o].pc = "idle" \/ (Done(o) /\ req[o].id \in req[s].after)

\* C20, amended: the same, for reconciliations of G2 that all name the same
\* project and issue type; and a synchronous request that no other request
\* overlapped creates a ticket only when the store holds no non-terminal
\* ticket of its group in its project and issue type.
C20_AtMostOnePerRoute ==
    [][/\ (/\ SequentialFor("G2")
           /\ \A s1, s2 \in Delivered :
                  /\ req[s1].project = req[s2].project
                  /\ req[s1].issue_type = req[s2].issue_type) =>
              Cardinality(OpenTicketsOf("G2")) <= 1
       /\ \A s \in Slots :
              (CreateStep(s) /\ NonOverlapped(s) /\ req[s].mode = "sync") =>
                  MatchingKeys(req[s].project, req[s].issue_type,
                               req[s].payload.groupKey) = {}
      ]_vars

\* two reconciliations of G2, one after the other: the first created the
\* ticket, the second found it and created none
C20_Witness ==
    \E s1, s2 \in Slots :
        /\ SequentialFor("G2")
        /\ Completed(s1) /\ Completed(s2)
        /\ req[s1].id \in req[s2].after
        /\ req[s1].project = req[s2].project /\ req[s1].issue_type = req[s2].issue_type
        /\ Len(Outcome(s1).created) = 1
        /\ Outcome(s2).found = Outcome(s1).created
        /\ Outcome(s2).created = <<>>
        /\ Cardinality(OpenTicketsOf("G2")) = 1

\* the tags the mapping cl is to give: the base tag, key:value for every
\* whitelisted key present, and the segments of the `tags` label, trimmed,
\* the ones that are empty after trimming left out
ExpectedTags(cl) ==
    {<<"alert">>}
    \cup {<<k, ":">> \o cl[k] : k \in DOMAIN cl \cap tags_whitelist}
    \cup (IF "tags" \in DOMAIN cl
          THEN {Strip(seg) : seg \in Range(Split(cl["tags"], ","))} \ {<<>>}
          ELSE {})

\* C21: as a set, what prepare_tags returns is exactly the expected tags.
C21_TagBuilding ==
    tstage = "called" => Range(ttags) = ExpectedTags(tlabels)

\* the ticket keys of the calls `op` of the request in s, in the order made
CallKeys(s, op) ==
    LET cs == SelectSeq(req[s].calls, LAMBDA c : c.op = op)
    IN  [i \in 1..Len(cs) |-> cs[i].key]

\* the sequence of permalinks or of keys q is in ascending key order
Ascending(q) == \A i, j \in 1..Len(q) : i < j => q[i] < q[j]

\* C22: the matched tickets are updated in ascending key order, and found
\* and updated list them in that order, whatever order the search returned.
C22_ProcessingOrder ==
    \A s \in Slots :
        Completed(s) =>
            /\ Ascending(CallKeys(s, "update"))
            /\ Ascending([i \in 1..Len(Outcome(s).found) |-> Outcome(s).found[i][2]])
            /\ Ascending([i \in 1..Len(Outcome(s).updated) |-> Outcome(s).updated[i][2]])

\* the entries of the allow-list that name an available transition of trs,
\* letter case ignored on both sides
AllowedHere(trs, allow) ==
    {i \in 1..Len(allow) : \E j \in 1..Len(trs) : Lower(trs[j].name) = Lower(allow[i])}

\* the transition the earliest such entry names
PreferredTransition(trs, allow) ==
    LET i == Min(AllowedHere(trs, allow))
    IN  trs[CHOOSE j \in 1..Len(trs) : Lower(trs[j].name) = Lower(allow[i])]

\* C23: for a resolved payload, on every matched ticket that offers a
\* transition of the allow-list, the transition executed is the one the
\* earliest matching entry of the allow-list names.
C23_TransitionSelection ==
    \A s \in Slots :
        (Completed(s) /\ req[s].payload.status = "resolved") =>
            \A i \in 1..Len(req[s].result) :
                LET k == req[s].result[i].key
                    trs == JiraTransitions([status |-> "open"])
                IN  AllowedHere(trs, resolve_transitions) # {} =>
                        \E c \in 1..Len(req[s].calls) :
                            /\ req[s].calls[c].op = "close"
                            /\ req[s].calls[c].key = k
                            /\ req[s].calls[c].tid =
                                   PreferredTransition(trs, resolve_transitions).id

\* C24: for a resolved payload, on every matched ticket that offers no
\* transition of the allow-list, no transition is executed, the ticket stays
\* in its non-terminal status, exactly one update is issued, the permalink is
\* listed under updated and not under resolved, and the request succeeds.
C24_NoTransitionIsWarning ==
    \A s \in Slots :
        (Completed(s) /\ req[s].payload.status = "resolved") =>
            \A i \in 1..Len(req[s].result) :
                LET k == req[s].result[i].key
                IN  ValidTransitions(tickets[k]) = <<>> =>
                        /\ ~\E c \in 1..Len(req[s].calls) :
                               req[s].calls[c].op = "close" /\ req[s].calls[c].key = k
                        /\ tickets[k].status \notin resolved_status
                        /\ Cardinality({c \in 1..Len(req[s].calls) :
                               req[s].calls[c].op = "update" /\ req[s].calls[c].key = k}) = 1
                        /\ Permalink(k) \in Range(Outcome(s).updated)
                        /\ Permalink(k) \notin Range(Outcome(s).resolved)
                        /\ req[s].final[1].code = 200

\* a resolved payload reconciled against the ticket in progress, which offers
\* only "Stop Progress": the ticket was updated and is listed under updated
C24_Witness ==
    \E s \in Slots :
        /\ Completed(s) /\ req[s].payload.status = "resolved"
        /\ \E i \in 1..Len(req[s].result) : req[s].result[i].key = 2
        /\ tickets[2].status = "in progress"
        /\ JiraTransitions(tickets[2]) # <<>>
        /\ ValidTransitions(tickets[2]) = <<>>
        /\ req[s].payload.groupKey \in tickets[2].touched
        /\ Permalink(2) \in Range(Outcome(s).updated)

\* the request in s made a call `op` on ticket k
Called(s, op, k) ==
    \E c \in 1..Len(req[s].calls) : req[s].calls[c].op = op /\ req[s].calls[c].key = k

\* C25: for a resolved payload with several matched tickets, the transitions
\* of every matched ticket are fetched, and a transition is executed on every
\* one that offers a transition of the allow-list, whatever happened to the
\* tickets before it in the loop.
C25_EachTicketOnItsOwn ==
    \A s \in Slots :
        (Completed(s) /\ req[s].payload.status = "resolved" /\ Len(req[s].result) >= 2) =>
            \A i \in 1..Len(req[s].result) :
                LET k == req[s].result[i].key
                IN  /\ Called(s, "transitions", k)
                    /\ (tickets[k].status \in resolved_status
                         \/ ValidTransitions(tickets[k]) # <<>>) => Called(s, "close", k)

\* the places of the history that hold an entry of the request in s
EntriesOf(s) ==
    {i \in 1..Len(history) : history[i] # <<>> /\ history[i][1].request = req[s].id}

\* the final outcome of the request in s: the outcome of its reconciliation
\* when one ran, else the response that rejected it
FinalOutcome(s) == IF req[s].final # <<>> THEN req[s].final ELSE req[s].resp

\* C26: a request has no history entry before it has ended and exactly one
\* once it has, holding its final outcome.
C26_OneEntryPerRequest ==
    \A s \in Slots :
        req[s].pc # "idle" =>
            /\ ~Done(s) => EntriesOf(s) = {}
            /\ Done(s) =>
                   /\ Cardinality(EntriesOf(s)) = 1
                   /\ FinalOutcome(s) # <<>>
                   /\ \A i \in EntriesOf(s) : history[i][1].response = FinalOutcome(s)[1]

\* C27: in the outcome of a reconciliation that returned, every matched
\* ticket is in exactly one of updated and resolved and nothing else is in
\* them; created holds at most one permalink, and holds one only when found is
\* empty and the payload is firing.
C27_OutcomePartition ==
    \A s \in Slots :
        Completed(s) =>
            LET o == Outcome(s)
            IN  /\ Range(o.updated) \cap Range(o.resolved) = {}
                /\ Range(o.updated) \cup Range(o.resolved) = Range(o.found)
                /\ Len(o.updated) + Len(o.resolved) = Len(o.found)
                /\ Cardinality(Range(o.found)) = Len(o.found)
                /\ Len(o.created) <= 1
                /\ o.created # <<>> =>
                       (o.found = <<>> /\ req[s].payload.status = "firing")

\* one request matched two tickets and updated both, another matched none
\* and created one
C27_Witness ==
    \E s1, s2 \in Slots :
        /\ Completed(s1) /\ Completed(s2)
        /\ Len(Outcome(s1).found) = 2
        /\ Range(Outcome(s1).updated) = Range(Outcome(s1).found)
        /\ Outcome(s1).created = <<>>
        /\ Outcome(s2).found = <<>>
        /\ Len(Outcome(s2).created) = 1
        /\ req[s2].payload.status = "firing"

\* C28: no reconciliation that passed the readiness check reaches a remote
\* call with the client cleared: none ends on the attribute lookup on None.
C28_NoCallWhenCleared ==
    \A s \in Slots :
        (req[s].pc # "idle" /\ req[s].readyAtEntry) =>
            req[s].raised # "AttributeError"

====
